---- MODULE Spec2Model ----
(***************************************************************************)
(* A model of src/process.rs of cargo-mutants: the subprocess controller   *)
(* Process (run, start, poll, terminate), the platform's                   *)
(* terminate_child_impl and the ProcessStatus conversion, together with    *)
(* the environment they race with: the child processes, the clock and the  *)
(* global interrupt flag.                                                  *)
(*                                                                         *)
(* Granularity.  Each Process is driven by one thread, so a handler is one *)
(* action up to the point where it blocks: poll's three checks and the     *)
(* signal send of terminate are one action (Poll), the blocking            *)
(* child.wait() of terminate and the return through poll and run are the   *)
(* next (Wait).  The child, the clock and the interrupt flag move between  *)
(* those actions.                                                          *)
(***************************************************************************)
EXTENDS Integers, Sequences, FiniteSets, TLC

\* The Process instances driven concurrently by the caller.
Procs == {1, 2}

\* The clock runs from 0 to MaxTime.
MaxTime == 1

\* Configured timeouts are None or Some(0) .. Some(MaxTimeout).
MaxTimeout == 0

\* A caller that holds a Process polls it again at most MaxRepolls times
\* after a poll has returned something.
MaxRepolls == 1

\* A command run by get_command_output writes at most MaxOutLen bytes.
MaxOutLen == 4

\* A quoted argument has at most MaxArgLen characters.
MaxArgLen == 2

\* Option<T>: None is the empty sequence, Some(x) the sequence <<x>>.
None == <<>>
Some(x) == <<x>>

Platforms == {"linux", "macos", "windows"}

IsUnix(plat) == plat # "windows"

\* The error payloads the cancellation query may carry.
Payloads == {"interrupted"}

Timeouts == {None} \cup {Some(t) : t \in 0..MaxTimeout}

\* Every exit code a POSIX child can report.
ExitCodeRange == 0..255

\* The exit codes the children of the main specification use.
SampleCodes == {0, 1, 255}

\* Signals that may kill a child from outside the controller.
ForeignSignals == {9}

SIGTERM == 15

VARIABLES
    platform,   \* the target the crate was built for (cfg!(unix), target_os)
    codes,      \* the exit codes the children may exit with
    now,        \* the monotonic clock (Instant::now())
    interrupt,  \* the global interrupt flag: None, or Some(error payload)
    pc,         \* per Process: where run() is
    timeout,    \* per Process: Process.timeout
    start,      \* per Process: Process.start
    child,      \* per Process: the OS state of Process.child
    exit,       \* per Process: the child's ExitStatus, once it has exited
    sigterm,    \* per Process: a termination request is about to end the child
    branch,     \* per Process: the branch the last poll() took
    seen,       \* per Process: what the last poll() observed
    sent,       \* per Process: the results of the signal sends, in order
    waits,      \* per Process: calls of child.wait() made by terminate
    reaps,      \* per Process: times this Process reaped its child
    termret,    \* per Process: what terminate() returned
    result,     \* per Process: what run() returned
    argv,       \* per Process: the command line given to run
    log_file,   \* per Process: the messages written to its LogFile, in order
    steps,      \* per Process: what run's loop did since poll last returned
    requests,   \* per Process: the termination requests it sent, in order
    pgrp,       \* per Process: the process group its child was spawned into
    signalled,  \* the OS processes a termination request has reached
    again,      \* per Process: what its earlier polls returned, when polled again
    spawns,     \* per Process: the spawn attempts start made
    command,    \* get_command_output: argv and what the command does
    output      \* get_command_output: what the call returned

envVars == <<platform, codes, now, interrupt>>
procVars == <<pc, timeout, start, branch, seen, sent, waits, reaps, termret, result,
              argv, log_file, steps, requests, again, spawns>>
osVars == <<child, exit, sigterm, pgrp, signalled>>
outVars == <<command, output>>
vars == <<platform, codes, now, interrupt, pc, timeout, start, child, exit,
          sigterm, branch, seen, sent, waits, reaps, termret, result,
          argv, log_file, steps, requests, pgrp, signalled, again, spawns,
          command, output>>

----------------------------------------------------------------------------
(* ExitStatus and ProcessStatus *)

NoStatus == [kind |-> "none", n |-> 0]
ExitedWithCode(c) == [kind |-> "code", n |-> c]
KilledBySignal(s) == [kind |-> "signal", n |-> s]
ExitedOtherwise == [kind |-> "neither", n |-> 0]

\* ExitStatus::code() and ExitStatusExt::signal()
code(status) == IF status.kind = "code" THEN Some(status.n) ELSE None
signal(status) == IF status.kind = "signal" THEN Some(status.n) ELSE None

\* What run() has returned: nothing yet, Ok(ProcessStatus) or Err(error);
\* cmd is the command line an error carries.
Pending == [kind |-> "Pending", n |-> 0, err |-> "", cmd |-> <<>>]
Success == [kind |-> "Success", n |-> 0, err |-> "", cmd |-> <<>>]
Failure(c) == [kind |-> "Failure", n |-> c, err |-> "", cmd |-> <<>>]
Timeout == [kind |-> "Timeout", n |-> 0, err |-> "", cmd |-> <<>>]
Signalled(s) == [kind |-> "Signalled", n |-> s, err |-> "", cmd |-> <<>>]
Other == [kind |-> "Other", n |-> 0, err |-> "", cmd |-> <<>>]
Err(e) == [kind |-> "Err", n |-> 0, err |-> e, cmd |-> <<>>]

\* start, line 88: the spawn error, with the command line as its context.
SpawnError(line) == [kind |-> "Err", n |-> 0, err |-> "failed to spawn", cmd |-> line]

NaturalKinds == {"Success", "Failure", "Signalled", "Other"}

\* The conversion with the test of the exit code inverted.
ProcessStatusOfInverted(plat, status) ==
    IF code(status) # None
    THEN IF code(status)[1] # 0
         THEN Success
         ELSE Failure(code(status)[1])
    ELSE IF IsUnix(plat) /\ signal(status) # None
         THEN Signalled(signal(status)[1] % (2^8))
         ELSE Other

\* The conversion without its signal arm.
ProcessStatusOfNoSignal(plat, status) ==
    IF code(status) # None
    THEN IF code(status)[1] = 0
         THEN Success
         ELSE Failure(code(status)[1])
    ELSE Other

\* poll, lines 108-119: the conversion of an ExitStatus into a ProcessStatus.
\* The exit codes of the model are the non-negative ones of a POSIX child,
\* on which `code as u32` (i32 to u32) keeps the value; `signal as u8`
\* truncates to 8 bits.  The signal arm exists only under cfg(unix).
ProcessStatusOf(plat, status) ==
    IF code(status) # None
    THEN IF code(status)[1] = 0
         THEN Success
         ELSE Failure(code(status)[1])
    ELSE IF IsUnix(plat) /\ signal(status) # None
         THEN Signalled(signal(status)[1] % (2^8))
         ELSE Other

----------------------------------------------------------------------------
(* Command lines.  A string is the sequence of its characters. *)

\* cheap_shell_quote, line 237: the characters that get a backslash.
Special == {" ", "\t", "\n", "\r", "\\", "'", "\""}

\* The closure of cheap_shell_quote with no arm for the backslash.
QuoteCharNoBackslash(c) == IF c \in Special \ {"\\"} THEN <<"\\", c>> ELSE <<c>>

\* cheap_shell_quote, lines 236-239: the closure given to flat_map.
QuoteChar(c) == IF c \in Special THEN <<"\\", c>> ELSE <<c>>

\* cheap_shell_quote, lines 234-240: chars().flat_map(..).collect()
RECURSIVE QuoteArg(_)
QuoteArg(str) ==
    IF str = <<>> THEN <<>> ELSE QuoteChar(Head(str)) \o QuoteArg(Tail(str))

\* [String]::join(sep)
RECURSIVE Join(_, _)
Join(strs, sep) ==
    IF strs = <<>> THEN <<>>
    ELSE IF Len(strs) = 1 THEN strs[1]
    ELSE strs[1] \o sep \o Join(Tail(strs), sep)

\* cheap_shell_quote
cheap_shell_quote(args) ==
    Join([i \in 1..Len(args) |-> QuoteArg(args[i])], <<" ">>)

\* The command lines of the main specifications.
SampleArgvs == { << <<"a">> >>, << <<"a">>, <<"b", " ", "\\">> >> }

\* The entries of a LogFile: the quoted command line, and the result.
CommandLine(line) == [what |-> "command", line |-> line, status |-> Pending]
ResultMessage(status) == [what |-> "result", line |-> <<>>, status |-> status]

----------------------------------------------------------------------------
(* The operating system *)

\* The pid of the child of Process p (child.id()).
Pid(p) == p

\* The process group of the controller, which a child inherits unless it
\* is given its own.
InheritedGroup == 0

\* The OS processes of the model: each child, a descendant of it that stays
\* in the child's process group, and one that left for a group of its own.
OsProcesses == [role : {"child", "descendant", "escaped"}, of : Procs]

GroupOf(x) == IF x.role = "escaped" THEN 0 - Pid(x.of) ELSE pgrp[x.of]

\* The processes of process group g.
Members(g) == {x \in OsProcesses : child[x.of] # "none" /\ GroupOf(x) = g}

\* The processes a termination request reaches when it is delivered.
Reached(req) ==
    IF req.how = "killpg"
    THEN Members(req.target)
    ELSE {x \in OsProcesses :
             x.role = "child" /\ child[x.of] # "none" /\ Pid(x.of) = req.target}

Alive(p) == child[p] = "running"

\* The child's resource is released: reaped by this Process, or collected
\* without it (SIGCHLD ignored, a wait elsewhere), which is what makes a
\* later wait fail with ECHILD.
Collected(p) == child[p] \in {"reaped", "gone"}

\* The exit statuses a child may end with of its own accord or by a signal
\* from outside.  Windows has exit codes only.
ExitStatuses ==
    IF IsUnix(platform)
    THEN {ExitedWithCode(c) : c \in codes}
         \cup {KilledBySignal(s) : s \in ForeignSignals}
         \cup {ExitedOtherwise}
    ELSE {ExitedWithCode(c) : c \in codes}

\* What the signal send of terminate_child_impl may report: killpg(pid,
\* SIGTERM) on POSIX, Child::kill on Windows.  ESRCH needs the child to have
\* exited already; EPERM is what a child that changed credentials gives, and
\* what macOS may give for a group of exited processes.
SendResults(p) ==
    IF IsUnix(platform)
    THEN CASE Alive(p) -> {"OK", "EPERM"}
           [] child[p] = "zombie" -> {"OK", "ESRCH", "EPERM"}
           [] OTHER -> {"ESRCH"}
    ELSE {"OK", "EACCES"}

\* The child exits: by itself, or killed from outside the controller.
ChildExit(p) ==
    /\ Alive(p)
    /\ \E status \in ExitStatuses : exit' = [exit EXCEPT ![p] = status]
    /\ child' = [child EXCEPT ![p] = "zombie"]
    /\ UNCHANGED <<envVars, procVars, sigterm, pgrp, signalled>>
    /\ UNCHANGED outVars

\* Whether a termination request that reached the living child will end
\* it: SIGTERM may be blocked, ignored or handled without exiting;
\* TerminateProcess on Windows cannot be.
Deadly == IF IsUnix(platform) THEN {TRUE, FALSE} ELSE {TRUE}

\* The child dies of the controller's termination request.
ChildTerm(p) ==
    /\ sigterm[p]
    /\ Alive(p)
    /\ exit' = [exit EXCEPT ![p] = IF IsUnix(platform)
                                   THEN KilledBySignal(SIGTERM)
                                   ELSE ExitedWithCode(1)]
    /\ child' = [child EXCEPT ![p] = "zombie"]
    /\ UNCHANGED <<envVars, procVars, sigterm, pgrp, signalled>>
    /\ UNCHANGED outVars

\* POSIX: the exited child is collected without this Process's wait.
OsCollect(p) ==
    /\ IsUnix(platform)
    /\ child[p] = "zombie"
    /\ child' = [child EXCEPT ![p] = "gone"]
    /\ UNCHANGED <<envVars, procVars, exit, sigterm, pgrp, signalled>>
    /\ UNCHANGED outVars

\* Time passes.
Tick ==
    /\ now < MaxTime
    /\ now' = now + 1
    /\ UNCHANGED <<platform, codes, interrupt, osVars, procVars>>
    /\ UNCHANGED outVars

\* The signal handler of crate::interrupt sets the global flag; nothing in
\* this crate clears it.
Interrupt ==
    /\ interrupt = None
    /\ \E e \in Payloads : interrupt' = Some(e)
    /\ UNCHANGED <<platform, codes, now, osVars, procVars>>
    /\ UNCHANGED outVars

\* crate::interrupt::check_interrupted(): Ok(()) is None here, Err(e) is Some(e).
check_interrupted == interrupt

----------------------------------------------------------------------------
(* Process *)

\* start, lines 84-85: process_group(0) under cfg(unix) makes the child the
\* leader of a new group; elsewhere it stays in the controller's.
SpawnGroup(p) == IF IsUnix(platform) THEN Pid(p) ELSE InheritedGroup

\* Process::start with the command line logged only once the child exists.
StartLogsAfterSpawn(p) ==
    /\ pc[p] = "init"
    /\ start' = [start EXCEPT ![p] = now]
    /\ \/ /\ spawns' = [spawns EXCEPT ![p] = @ + 1]
          /\ child' = [child EXCEPT ![p] = "running"]
          /\ pgrp' = [pgrp EXCEPT ![p] = SpawnGroup(p)]
          /\ pc' = [pc EXCEPT ![p] = "poll"]
          /\ log_file' = [log_file EXCEPT ![p] =
                             Append(@, CommandLine(cheap_shell_quote(argv[p])))]
          /\ UNCHANGED result
       \/ /\ spawns' = [spawns EXCEPT ![p] = @ + 1]
          /\ pc' = [pc EXCEPT ![p] = "done"]
          /\ result' = [result EXCEPT ![p] = SpawnError(Join(argv[p], <<" ">>))]
          /\ UNCHANGED <<child, pgrp, log_file>>
       \/ /\ pc' = [pc EXCEPT ![p] = "done"]
          /\ result' = [result EXCEPT ![p] = Err("open_append")]
          /\ UNCHANGED <<child, pgrp, spawns, log_file>>
    /\ UNCHANGED <<envVars, exit, sigterm, signalled, timeout, branch, seen, sent,
                   waits, reaps, termret, argv, steps, requests, again>>
    /\ UNCHANGED outVars

\* Process::start and the first line of run: log the quoted command line,
\* open the log for the child's output, spawn the child; `?` returns the
\* error of either through run.
Start(p) ==
    /\ pc[p] = "init"
    /\ start' = [start EXCEPT ![p] = now]
    /\ log_file' = [log_file EXCEPT ![p] = Append(@, CommandLine(cheap_shell_quote(argv[p])))]
    /\ \/ /\ spawns' = [spawns EXCEPT ![p] = @ + 1]
          /\ child' = [child EXCEPT ![p] = "running"]
          /\ pgrp' = [pgrp EXCEPT ![p] = SpawnGroup(p)]
          /\ pc' = [pc EXCEPT ![p] = "poll"]
          /\ UNCHANGED result
       \/ /\ spawns' = [spawns EXCEPT ![p] = @ + 1]
          /\ pc' = [pc EXCEPT ![p] = "done"]
          /\ result' = [result EXCEPT ![p] = SpawnError(Join(argv[p], <<" ">>))]
          /\ UNCHANGED <<child, pgrp>>
       \/ /\ pc' = [pc EXCEPT ![p] = "done"]
          /\ result' = [result EXCEPT ![p] = Err("open_append")]
          /\ UNCHANGED <<child, pgrp, spawns>>
    /\ UNCHANGED <<envVars, exit, sigterm, signalled, timeout, branch, seen, sent,
                   waits, reaps, termret, argv, steps, requests, again>>
    /\ UNCHANGED outVars

\* self.start.elapsed()
elapsed(p) == now - start[p]

\* The timeout test made with >= in place of >.
TimedOutAtLimit(p) == timeout[p] # None /\ elapsed(p) >= timeout[p][1]

\* poll, line 99: self.timeout.map_or(false, |t| self.start.elapsed() > t)
TimedOut(p) == timeout[p] # None /\ elapsed(p) > timeout[p][1]

\* terminate_child_impl with EPERM tolerated on every POSIX target.
terminate_child_impl_eperm_anywhere(plat, errno) ==
    IF IsUnix(plat)
    THEN CASE errno = "OK" -> "Ok"
           [] errno = "ESRCH" -> "Ok"
           [] errno = "EPERM" -> "Ok"
           [] OTHER -> "failed to terminate child: " \o errno
    ELSE IF errno = "OK" THEN "Ok" ELSE "Kill child"

\* terminate_child_impl without its ESRCH arm.
terminate_child_impl_no_esrch(plat, errno) ==
    IF IsUnix(plat)
    THEN CASE errno = "OK" -> "Ok"
           [] errno = "EPERM" /\ plat = "macos" -> "Ok"
           [] OTHER -> "failed to terminate child: " \o errno
    ELSE IF errno = "OK" THEN "Ok" ELSE "Kill child"

\* terminate_child_impl: the classification of the signal send's result,
\* "Ok" or the error's message.
terminate_child_impl(plat, errno) ==
    IF IsUnix(plat)
    THEN CASE errno = "OK" -> "Ok"
           [] errno = "ESRCH" -> "Ok"
           [] errno = "EPERM" /\ plat = "macos" -> "Ok"
           [] OTHER -> "failed to terminate child: " \o errno
    ELSE IF errno = "OK" THEN "Ok" ELSE "Kill child"

\* The request made with kill(pid, SIGTERM), for the child alone.
TerminationRequestToPid(p) ==
    IF IsUnix(platform)
    THEN [how |-> "kill", signal |-> SIGTERM, target |-> Pid(p)]
    ELSE [how |-> "kill", signal |-> 0, target |-> Pid(p)]

\* terminate_child_impl, lines 151-152 and 171: what is sent, and to whom.
\* Child::kill on Windows ends the one process and is no signal.
TerminationRequest(p) ==
    IF IsUnix(platform)
    THEN [how |-> "killpg", signal |-> SIGTERM, target |-> Pid(p)]
    ELSE [how |-> "kill", signal |-> 0, target |-> Pid(p)]

\* terminate up to its blocking wait, as called from poll: the signal send,
\* and with `?` the return of its error through terminate, poll and run.
Terminate(p, why) ==
    \E errno \in SendResults(p) :
        LET r == terminate_child_impl(platform, errno) IN
        /\ branch' = [branch EXCEPT ![p] = why]
        /\ sent' = [sent EXCEPT ![p] = Append(@, errno)]
        /\ requests' = [requests EXCEPT ![p] = Append(@, TerminationRequest(p))]
        /\ signalled' = IF errno = "OK"
                        THEN signalled \cup Reached(TerminationRequest(p))
                        ELSE signalled
        /\ \E deadly \in Deadly :
               sigterm' = [sigterm EXCEPT ![p] = errno = "OK" /\ Alive(p) /\ deadly]
        /\ IF r = "Ok"
           THEN /\ pc' = [pc EXCEPT ![p] = "wait"]
                /\ UNCHANGED <<termret, result>>
           ELSE /\ pc' = [pc EXCEPT ![p] = "done"]
                /\ termret' = [termret EXCEPT ![p] = "Err"]
                /\ result' = [result EXCEPT ![p] = Err(r)]
        /\ UNCHANGED <<child, exit, waits, reaps, log_file>>

\* run, line 57: log_file.message("result: ..."), which only run does: a
\* poll made by another caller logs nothing.
Logged(p, status) ==
    IF again[p] = <<>> THEN Append(log_file[p], ResultMessage(status)) ELSE log_file[p]

\* The exit-status branch made with the blocking child.wait() in place of
\* try_wait: a child that is still running is waited for.
TryWaitBlocking(p) ==
    /\ branch' = [branch EXCEPT ![p] = "exit"]
    /\ CASE Alive(p) ->
              /\ pc' = [pc EXCEPT ![p] = "wait"]
              /\ UNCHANGED <<child, reaps, result, log_file>>
         [] child[p] = "zombie" ->
              /\ child' = [child EXCEPT ![p] = "reaped"]
              /\ reaps' = [reaps EXCEPT ![p] = @ + 1]
              /\ result' = [result EXCEPT ![p] = ProcessStatusOf(platform, exit[p])]
              /\ log_file' = [log_file EXCEPT ![p] =
                                 Logged(p, ProcessStatusOf(platform, exit[p]))]
              /\ pc' = [pc EXCEPT ![p] = "done"]
         [] OTHER ->
              /\ result' = [result EXCEPT ![p] = Err("ECHILD")]
              /\ pc' = [pc EXCEPT ![p] = "done"]
              /\ UNCHANGED <<child, reaps, log_file>>
    /\ UNCHANGED <<exit, sigterm, sent, waits, termret, requests, signalled>>

\* The exit-status branch without the status Child keeps once it has one.
TryWaitNoCache(p) ==
    /\ branch' = [branch EXCEPT ![p] = "exit"]
    /\ CASE Alive(p) ->
              /\ pc' = [pc EXCEPT ![p] = "sleep"]
              /\ UNCHANGED <<child, reaps, result, log_file>>
         [] child[p] = "zombie" ->
              /\ child' = [child EXCEPT ![p] = "reaped"]
              /\ reaps' = [reaps EXCEPT ![p] = @ + 1]
              /\ result' = [result EXCEPT ![p] = ProcessStatusOf(platform, exit[p])]
              /\ log_file' = [log_file EXCEPT ![p] =
                                 Logged(p, ProcessStatusOf(platform, exit[p]))]
              /\ pc' = [pc EXCEPT ![p] = "done"]
         [] OTHER ->
              /\ result' = [result EXCEPT ![p] = Err("ECHILD")]
              /\ pc' = [pc EXCEPT ![p] = "done"]
              /\ UNCHANGED <<child, reaps, log_file>>
    /\ UNCHANGED <<exit, sigterm, sent, waits, termret, requests, signalled>>

\* poll, lines 107-122: self.child.try_wait()? and what follows; run's loop
\* ends with the status or the error, or goes on to tick and sleep.  A Child
\* that was reaped by this Process keeps its status and gives it again.
TryWait(p) ==
    /\ branch' = [branch EXCEPT ![p] = "exit"]
    /\ CASE Alive(p) ->
              /\ pc' = [pc EXCEPT ![p] = "sleep"]
              /\ UNCHANGED <<child, reaps, result, log_file>>
         [] child[p] = "zombie" ->
              /\ child' = [child EXCEPT ![p] = "reaped"]
              /\ reaps' = [reaps EXCEPT ![p] = @ + 1]
              /\ result' = [result EXCEPT ![p] = ProcessStatusOf(platform, exit[p])]
              /\ log_file' = [log_file EXCEPT ![p] =
                                 Logged(p, ProcessStatusOf(platform, exit[p]))]
              /\ pc' = [pc EXCEPT ![p] = "done"]
         [] child[p] = "reaped" ->
              /\ result' = [result EXCEPT ![p] = ProcessStatusOf(platform, exit[p])]
              /\ log_file' = [log_file EXCEPT ![p] =
                                 Logged(p, ProcessStatusOf(platform, exit[p]))]
              /\ pc' = [pc EXCEPT ![p] = "done"]
              /\ UNCHANGED <<child, reaps>>
         [] OTHER ->
              /\ result' = [result EXCEPT ![p] = Err("ECHILD")]
              /\ pc' = [pc EXCEPT ![p] = "done"]
              /\ UNCHANGED <<child, reaps, log_file>>
    /\ UNCHANGED <<exit, sigterm, sent, waits, termret, requests, signalled>>

\* What a poll observes: the timeout test, the cancellation query and
\* whether the child has exited.
Observation(p) ==
    [timedout |-> TimedOut(p), intr |-> check_interrupted, exited |-> ~Alive(p)]

\* poll with the interrupt checked before the timeout.
PollInterruptFirst(p) ==
    /\ pc[p] = "poll"
    /\ seen' = [seen EXCEPT ![p] = Observation(p)]
    /\ steps' = [steps EXCEPT ![p] = <<>>]
    /\ IF check_interrupted # None
       THEN Terminate(p, "interrupt")
       ELSE IF TimedOut(p)
            THEN Terminate(p, "timeout")
            ELSE TryWait(p)
    /\ UNCHANGED <<envVars, timeout, start, pgrp, argv, again, spawns>>
    /\ UNCHANGED outVars

\* poll with the exit status checked before the interrupt.
PollExitFirst(p) ==
    /\ pc[p] = "poll"
    /\ seen' = [seen EXCEPT ![p] = Observation(p)]
    /\ steps' = [steps EXCEPT ![p] = <<>>]
    /\ IF TimedOut(p)
       THEN Terminate(p, "timeout")
       ELSE IF ~Alive(p) \/ check_interrupted = None
            THEN TryWait(p)
            ELSE Terminate(p, "interrupt")
    /\ UNCHANGED <<envVars, timeout, start, pgrp, argv, again, spawns>>
    /\ UNCHANGED outVars

\* Process::poll, called from run's loop.
Poll(p) ==
    /\ pc[p] = "poll"
    /\ seen' = [seen EXCEPT ![p] = Observation(p)]
    /\ steps' = [steps EXCEPT ![p] = <<>>]
    /\ IF TimedOut(p)
       THEN Terminate(p, "timeout")
       ELSE IF check_interrupted # None
            THEN Terminate(p, "interrupt")
            ELSE TryWait(p)
    /\ UNCHANGED <<envVars, timeout, start, pgrp, argv, again, spawns>>
    /\ UNCHANGED outVars

\* The return after terminate with the interrupt's error dropped.
WaitDropsInterrupt(p) ==
    /\ pc[p] = "wait"
    /\ ~Alive(p)
    /\ waits' = [waits EXCEPT ![p] = @ + 1]
    /\ IF child[p] = "zombie"
       THEN /\ child' = [child EXCEPT ![p] = "reaped"]
            /\ reaps' = [reaps EXCEPT ![p] = @ + 1]
       ELSE UNCHANGED <<child, reaps>>
    /\ termret' = [termret EXCEPT ![p] = "Ok"]
    /\ result' = [result EXCEPT ![p] = Timeout]
    /\ log_file' = [log_file EXCEPT ![p] = Logged(p, Timeout)]
    /\ pc' = [pc EXCEPT ![p] = "done"]
    /\ UNCHANGED <<envVars, exit, sigterm, pgrp, signalled, timeout, start, branch,
                   seen, sent, argv, steps, requests, again, spawns>>
    /\ UNCHANGED outVars

\* terminate with `?` on its child.wait(): a failed wait is returned as an
\* error through terminate, poll and run.
WaitPropagatesError(p) ==
    /\ pc[p] = "wait"
    /\ ~Alive(p)
    /\ waits' = [waits EXCEPT ![p] = @ + 1]
    /\ IF child[p] = "zombie"
       THEN /\ child' = [child EXCEPT ![p] = "reaped"]
            /\ reaps' = [reaps EXCEPT ![p] = @ + 1]
            /\ termret' = [termret EXCEPT ![p] = "Ok"]
            /\ result' = [result EXCEPT ![p] = IF branch[p] = "timeout"
                                               THEN Timeout
                                               ELSE Err(seen[p].intr[1])]
            /\ log_file' = [log_file EXCEPT ![p] = IF branch[p] = "timeout"
                                                   THEN Logged(p, Timeout)
                                                   ELSE @]
       ELSE /\ termret' = [termret EXCEPT ![p] = "Err"]
            /\ result' = [result EXCEPT ![p] = Err("ECHILD")]
            /\ UNCHANGED <<child, reaps, log_file>>
    /\ pc' = [pc EXCEPT ![p] = "done"]
    /\ UNCHANGED <<envVars, exit, sigterm, pgrp, signalled, timeout, start, branch,
                   seen, sent, argv, steps, requests, again, spawns>>
    /\ UNCHANGED outVars

\* terminate, lines 135-140: the blocking child.wait(), whose error is only
\* logged; then poll returns Timeout or the interrupt's error, and run ends,
\* logging the result when it is a status.
Wait(p) ==
    /\ pc[p] = "wait"
    /\ ~Alive(p)
    /\ waits' = [waits EXCEPT ![p] = @ + 1]
    /\ IF child[p] = "zombie"
       THEN /\ child' = [child EXCEPT ![p] = "reaped"]
            /\ reaps' = [reaps EXCEPT ![p] = @ + 1]
       ELSE UNCHANGED <<child, reaps>>
    /\ termret' = [termret EXCEPT ![p] = "Ok"]
    /\ result' = [result EXCEPT ![p] = IF branch[p] = "timeout"
                                       THEN Timeout
                                       ELSE Err(seen[p].intr[1])]
    /\ log_file' = [log_file EXCEPT ![p] = IF branch[p] = "timeout"
                                           THEN Logged(p, Timeout)
                                           ELSE @]
    /\ pc' = [pc EXCEPT ![p] = "done"]
    /\ UNCHANGED <<envVars, exit, sigterm, pgrp, signalled, timeout, start, branch,
                   seen, sent, argv, steps, requests, again, spawns>>
    /\ UNCHANGED outVars

\* run's loop going back to poll without the sleep.
TickNoSleep(p) ==
    /\ pc[p] = "sleep"
    /\ pc' = [pc EXCEPT ![p] = "poll"]
    /\ steps' = [steps EXCEPT ![p] = @ \o <<"tick">>]
    /\ UNCHANGED <<envVars, osVars, timeout, start, branch, seen, sent, waits,
                   reaps, termret, result, argv, log_file, requests, again, spawns>>
    /\ UNCHANGED outVars

\* run, lines 52-55: poll returned None; tick the console and sleep.
TickSleep(p) ==
    /\ pc[p] = "sleep"
    /\ pc' = [pc EXCEPT ![p] = "poll"]
    /\ steps' = [steps EXCEPT ![p] = @ \o <<"tick", "sleep">>]
    /\ UNCHANGED <<envVars, osVars, timeout, start, branch, seen, sent, waits,
                   reaps, termret, result, argv, log_file, requests, again, spawns>>
    /\ UNCHANGED outVars

\* A caller that holds the Process calls poll again after an earlier call
\* returned a status or an error; `again` keeps what the earlier call gave.
PollAgain(p) ==
    /\ pc[p] = "done"
    /\ child[p] # "none"
    /\ Len(again[p]) < MaxRepolls
    /\ again' = [again EXCEPT ![p] = Append(@, result[p])]
    /\ pc' = [pc EXCEPT ![p] = "poll"]
    /\ UNCHANGED <<envVars, osVars, timeout, start, branch, seen, sent, waits,
                   reaps, termret, result, argv, log_file, steps, requests, spawns>>
    /\ UNCHANGED outVars

----------------------------------------------------------------------------
(* get_command_output *)

\* Bytes a command may write to its standard output: ASCII, lead bytes of
\* two-, three- and four-byte sequences, continuation bytes, and a byte that
\* occurs in no UTF-8 text.
SampleBytes == {10, 65, 128, 160, 195, 224, 237, 240, 244, 255}

ByteStrings == UNION {[1..k -> SampleBytes] : k \in 0..MaxOutLen}

\* How the command ends, when it could be spawned.
OutputStatuses ==
    {ExitedWithCode(c) : c \in {0, 1}} \cup {KilledBySignal(s) : s \in ForeignSignals}

\* The commands get_command_output is called with: argv, whether the spawn
\* succeeds, the exit status and the bytes written to standard output.
Commands ==
    {[argv |-> a, spawn |-> FALSE, status |-> NoStatus, stdout |-> <<>>] : a \in SampleArgvs}
    \cup [argv : SampleArgvs, spawn : {TRUE}, status : OutputStatuses, stdout : ByteStrings]

NoCommand == [argv |-> <<>>, spawn |-> FALSE, status |-> NoStatus, stdout |-> <<>>]

\* ExitStatus::success()
success(status) == code(status) = Some(0)

\* Result<String>: not yet returned, Ok(text) or the error with its context.
NotCalled == [kind |-> "NotCalled", msg |-> "", status |-> NoStatus, argv |-> <<>>, text |-> <<>>]
OutOk(text) == [kind |-> "Ok", msg |-> "", status |-> NoStatus, argv |-> <<>>, text |-> text]
OutErr(msg, status, args) ==
    [kind |-> "Err", msg |-> msg, status |-> status, argv |-> args, text |-> <<>>]

\* String::from_utf8: the width a lead byte announces, 0 for a byte that
\* cannot start a character.
Width(b) ==
    IF b < 128 THEN 1
    ELSE IF b \in 194..223 THEN 2
    ELSE IF b \in 224..239 THEN 3
    ELSE IF b \in 240..244 THEN 4
    ELSE 0

IsCont(b) == b \in 128..191

\* String::from_utf8: the second byte of a sequence, whose range depends on
\* the lead byte (no overlong form, no surrogate, nothing above U+10FFFF).
SecondOk(b1, b2) ==
    CASE b1 = 224 -> b2 \in 160..191
      [] b1 = 237 -> b2 \in 128..159
      [] b1 = 240 -> b2 \in 144..191
      [] b1 = 244 -> b2 \in 128..143
      [] OTHER -> IsCont(b2)

\* The character a sequence of w bytes encodes.
Scalar(bs, w) ==
    CASE w = 1 -> bs[1]
      [] w = 2 -> (bs[1] - 192) * 64 + (bs[2] - 128)
      [] w = 3 -> (bs[1] - 224) * 4096 + (bs[2] - 128) * 64 + (bs[3] - 128)
      [] w = 4 -> (bs[1] - 240) * 262144 + (bs[2] - 128) * 4096
                    + (bs[3] - 128) * 64 + (bs[4] - 128)

\* String::from_utf8: the bytes are checked and, when valid, become the
\* String's characters; None stands for FromUtf8Error.
RECURSIVE from_utf8(_)
from_utf8(bs) ==
    IF bs = <<>> THEN Some(<<>>)
    ELSE LET w == Width(bs[1])
         IN IF /\ w # 0
               /\ Len(bs) >= w
               /\ (w >= 2 => SecondOk(bs[1], bs[2]))
               /\ (w >= 3 => IsCont(bs[3]))
               /\ (w >= 4 => IsCont(bs[4]))
            THEN LET rest == from_utf8(SubSeq(bs, w + 1, Len(bs)))
                 IN IF rest = None THEN None
                    ELSE Some(<<Scalar(bs, w)>> \o rest[1])
            ELSE None

\* get_command_output without its test of the exit status.
get_command_output_any_status(c) ==
    IF ~c.spawn
    THEN OutErr("failed to spawn", NoStatus, c.argv)
    ELSE LET text == from_utf8(c.stdout)
         IN IF text = None
            THEN OutErr("Child output is not UTF-8", NoStatus, <<>>)
            ELSE OutOk(text[1])

\* get_command_output, lines 212-225.
get_command_output(c) ==
    IF ~c.spawn
    THEN OutErr("failed to spawn", NoStatus, c.argv)
    ELSE IF ~success(c.status)
    THEN OutErr("Child failed with status", c.status, c.argv)
    ELSE LET text == from_utf8(c.stdout)
         IN IF text = None
            THEN OutErr("Child output is not UTF-8", NoStatus, <<>>)
            ELSE OutOk(text[1])

\* A call of get_command_output.
GetCommandOutput ==
    /\ output = NotCalled
    /\ command # NoCommand
    /\ output' = get_command_output(command)
    /\ UNCHANGED <<envVars, procVars, osVars, command>>

\* No call of get_command_output is under way.
NoOutput == command = NoCommand /\ output = NotCalled

----------------------------------------------------------------------------
(* Specifications *)

NoObservation == [timedout |-> FALSE, intr |-> None, exited |-> FALSE]

\* The state after construction, with the Processes of `running` about to be
\* run and the others never used.
InitProcs(running) ==
    /\ now = 0
    /\ interrupt = None
    /\ pc = [p \in Procs |-> IF p \in running THEN "init" ELSE "unused"]
    /\ start = [p \in Procs |-> 0]
    /\ child = [p \in Procs |-> "none"]
    /\ exit = [p \in Procs |-> NoStatus]
    /\ sigterm = [p \in Procs |-> FALSE]
    /\ branch = [p \in Procs |-> "none"]
    /\ seen = [p \in Procs |-> NoObservation]
    /\ sent = [p \in Procs |-> <<>>]
    /\ waits = [p \in Procs |-> 0]
    /\ reaps = [p \in Procs |-> 0]
    /\ termret = [p \in Procs |-> "none"]
    /\ result = [p \in Procs |-> Pending]
    /\ log_file = [p \in Procs |-> <<>>]
    /\ steps = [p \in Procs |-> <<>>]
    /\ requests = [p \in Procs |-> <<>>]
    /\ pgrp = [p \in Procs |-> InheritedGroup]
    /\ signalled = {}
    /\ again = [p \in Procs |-> <<>>]
    /\ spawns = [p \in Procs |-> 0]

\* One Process, on every platform, with every timeout.
Init ==
    /\ platform \in Platforms
    /\ codes = SampleCodes
    /\ timeout \in [Procs -> Timeouts]
    /\ \A p \in Procs \ {1} : timeout[p] = None
    /\ argv \in [Procs -> SampleArgvs]
    /\ \A p \in Procs \ {1} : argv[p] = << <<"a">> >>
    /\ InitProcs({1})
    /\ NoOutput

\* Several Processes driven concurrently.
InitMany ==
    /\ platform = "linux"
    /\ codes = {0}
    /\ timeout \in [Procs -> Timeouts]
    /\ argv = [p \in Procs |-> << <<"a">> >>]
    /\ InitProcs(Procs)
    /\ NoOutput

\* One Process whose child may exit with any exit code.
InitCodes ==
    /\ platform \in Platforms
    /\ codes = ExitCodeRange
    /\ timeout \in [Procs -> Timeouts]
    /\ \A p \in Procs \ {1} : timeout[p] = None
    /\ argv = [p \in Procs |-> << <<"a">> >>]
    /\ InitProcs({1})
    /\ NoOutput

Next ==
    \/ \E p \in Procs : Start(p)
    \/ \E p \in Procs : Poll(p)
    \/ \E p \in Procs : Wait(p)
    \/ \E p \in Procs : TickSleep(p)
    \/ \E p \in Procs : ChildExit(p)
    \/ \E p \in Procs : ChildTerm(p)
    \/ \E p \in Procs : OsCollect(p)
    \/ Tick
    \/ Interrupt

Spec == Init /\ [][Next]_vars

SpecMany == InitMany /\ [][Next]_vars

SpecCodes == InitCodes /\ [][Next]_vars

\* The Process in the hands of a caller that polls it again.
NextRepoll ==
    \/ Next
    \/ \E p \in Procs : PollAgain(p)

SpecRepoll == Init /\ [][NextRepoll]_vars

\* The characters of the arguments that are quoted: every character that
\* cheap_shell_quote escapes, and one it does not.
SampleChars == Special \cup {"a"}

ArgStrings(n) == UNION {[1..k -> SampleChars] : k \in 0..n}

\* The command lines that are quoted: one argument of up to MaxArgLen
\* characters, or two arguments of at most one character.
QuoteInputs ==
    {<<a>> : a \in ArgStrings(MaxArgLen)}
    \cup {<<a, b>> : a \in ArgStrings(1), b \in ArgStrings(1)}

\* start called with any of these command lines.
InitQuote ==
    /\ platform = "linux"
    /\ codes = SampleCodes
    /\ timeout = [p \in Procs |-> None]
    /\ argv \in [Procs -> QuoteInputs]
    /\ \A p \in Procs \ {1} : argv[p] = << <<"a">> >>
    /\ InitProcs({1})
    /\ NoOutput

NextQuote == \E p \in Procs : Start(p)

SpecQuote == InitQuote /\ [][NextQuote]_vars

\* get_command_output called once with some command; no Process is run.
InitOutput ==
    /\ platform = "linux"
    /\ codes = SampleCodes
    /\ timeout = [p \in Procs |-> None]
    /\ argv = [p \in Procs |-> << <<"a">> >>]
    /\ InitProcs({})
    /\ command \in Commands
    /\ output = NotCalled

NextOutput == GetCommandOutput

SpecOutput == InitOutput /\ [][NextOutput]_vars

\* What the scheduling guarantees: the thread that drives a Process keeps
\* running, and a child that a termination request will end does end.
\* Nothing makes a child exit of its own accord, the clock reach a timeout
\* or an interrupt arrive.
Fairness ==
    \A p \in Procs :
        /\ WF_vars(Start(p))
        /\ WF_vars(Poll(p))
        /\ WF_vars(Wait(p))
        /\ WF_vars(TickSleep(p))
        /\ WF_vars(ChildTerm(p))

FairSpec == Init /\ [][Next]_vars /\ Fairness

----------------------------------------------------------------------------
(* Properties *)

\* run has returned for p.
Done(p) == pc[p] = "done"

\* The error poll returns when terminate fails on its signal send.
TerminateError(p) == Err(terminate_child_impl(platform, sent[p][Len(sent[p])]))

\* The signal send of p's terminate succeeded or was tolerated.
SendTolerated(p) == terminate_child_impl(platform, sent[p][Len(sent[p])]) = "Ok"

\* C1 as stated: whenever the timeout has elapsed at a poll, the outcome is
\* Timeout; otherwise, whenever an interrupt is requested, the outcome is the
\* interruption; the exit status is consulted only when neither holds.
C1_AsStated ==
    \A p \in Procs :
        /\ (Done(p) /\ seen[p].timedout) => result[p] = Timeout
        /\ (Done(p) /\ ~seen[p].timedout /\ seen[p].intr # None)
              => result[p] = Err(seen[p].intr[1])
        /\ branch[p] = "exit" => (~seen[p].timedout /\ seen[p].intr = None)

\* C1, amended: poll checks timeout, then interrupt, then exit status, and
\* the first that matches decides the branch.  When the timeout has elapsed
\* the poll terminates the child and its outcome is Timeout, whatever the
\* interrupt flag and whether or not the child has exited, unless the signal
\* send fails with an error that is not tolerated, which is then the outcome;
\* otherwise, when an interrupt is requested, the poll terminates the child
\* and its outcome is the interruption, or likewise the signal send's error;
\* the child's exit status is consulted exactly when neither holds.
C1_CheckOrder ==
    \A p \in Procs :
        branch[p] # "none" =>
            /\ seen[p].timedout <=> branch[p] = "timeout"
            /\ (~seen[p].timedout /\ seen[p].intr # None) <=> branch[p] = "interrupt"
            /\ (~seen[p].timedout /\ seen[p].intr = None) <=> branch[p] = "exit"
            /\ branch[p] # "exit" => /\ Len(sent[p]) = 1
                                     /\ reaps[p] <= waits[p]
                                     /\ pc[p] \in {"wait", "done"}
            /\ (Done(p) /\ branch[p] = "timeout") =>
                  result[p] = IF SendTolerated(p) THEN Timeout ELSE TerminateError(p)
            /\ (Done(p) /\ branch[p] = "interrupt") =>
                  result[p] = IF SendTolerated(p)
                              THEN Err(seen[p].intr[1])
                              ELSE TerminateError(p)
            /\ branch[p] = "exit" => sent[p] = <<>>

\* C1's case: a poll found the timeout elapsed, an interrupt requested and the
\* child already exited, and run returned Timeout.
C1_Witness ==
    \E p \in Procs :
        /\ Done(p)
        /\ seen[p].timedout /\ seen[p].intr # None /\ seen[p].exited
        /\ result[p] = Timeout

\* p's child was spawned.
Spawned(p) == child[p] # "none"

\* C2 as stated: every poll made after the timeout has elapsed yields Timeout
\* and returns with the child's resource reaped.
C2_TimeoutReaped ==
    \A p \in Procs :
        (Done(p) /\ seen[p].timedout) => (result[p] = Timeout /\ Collected(p))

\* C3 as stated: when an interrupt is requested at a poll, that poll attempts
\* termination and run returns the cancellation query's error, never a
\* ProcessStatus and never another error.
C3_AsStated ==
    \A p \in Procs :
        (Done(p) /\ seen[p].intr # None) =>
            (Len(sent[p]) = 1 /\ result[p] = Err(seen[p].intr[1]))

\* C3, amended: when an interrupt is requested at a poll and the timeout has
\* not elapsed, that poll makes one termination attempt before it returns,
\* and run returns an error and never a ProcessStatus: the cancellation
\* query's error when the signal send succeeded or was tolerated, and the
\* signal send's error in its place otherwise.
C3_InterruptPropagated ==
    \A p \in Procs :
        (seen[p].intr # None /\ ~seen[p].timedout) =>
            /\ Len(sent[p]) = 1
            /\ pc[p] \in {"wait", "done"}
            /\ pc[p] = "wait" => (result[p] = Pending /\ SendTolerated(p))
            /\ Done(p) =>
                  /\ result[p].kind = "Err"
                  /\ SendTolerated(p) => result[p] = Err(seen[p].intr[1])
                  /\ ~SendTolerated(p) => result[p] = TerminateError(p)

\* C3's case: an interrupt arrived while the child was running, the poll sent
\* the termination signal, and run returned the query's error.
C3_Witness ==
    \E p \in Procs :
        /\ Done(p)
        /\ seen[p].intr # None /\ ~seen[p].timedout /\ ~seen[p].exited
        /\ sent[p] = <<"OK">>
        /\ result[p] = Err(interrupt[1])

\* try_wait of p's last poll returned the child's exit status.
StatusObtained(p) == branch[p] = "exit" /\ child[p] = "reaped"

\* C4: for every exit code c in 0..255, a poll made with no timeout elapsed
\* and no interrupt requested that finds the child exited with code c
\* yields Success if and only if c = 0, and Failure(c) with the same c
\* otherwise.
C4_ExitCodes ==
    \A p \in Procs :
        (StatusObtained(p) /\ code(exit[p]) # None) =>
            /\ ~seen[p].timedout /\ seen[p].intr = None
            /\ Done(p)
            /\ result[p] = Success <=> code(exit[p])[1] = 0
            /\ code(exit[p])[1] # 0 => result[p] = Failure(code(exit[p])[1])

\* C4's case: a child that exited with the largest exit code was polled.
C4_Witness ==
    \E p \in Procs :
        /\ StatusObtained(p)
        /\ exit[p] = ExitedWithCode(255)
        /\ result[p] = Failure(255)

\* C4's other case: a child that exited with code 0 was polled.
C4_WitnessSuccess ==
    \E p \in Procs :
        StatusObtained(p) /\ exit[p] = ExitedWithCode(0) /\ result[p] = Success

\* C5 as stated: on a platform with signals, whenever a child with no
\* configured timeout was killed by signal n, run yields Signalled(n); and
\* Other is returned only for a status with neither code nor signal.
C5_AsStated ==
    \A p \in Procs :
        /\ ( /\ IsUnix(platform) /\ timeout[p] = None
             /\ Done(p) /\ seen[p].exited /\ child[p] = "reaped"
             /\ signal(exit[p]) # None )
              => result[p] = Signalled(signal(exit[p])[1])
        /\ result[p] = Other => (code(exit[p]) = None /\ signal(exit[p]) = None)

\* C5, amended: on a platform with signals, a child with no configured
\* timeout that was killed by signal n and is polled while no interrupt is
\* requested yields Signalled(n) with n the actual signal number; and poll
\* returns Other only when the exit status it obtained carries neither a
\* numeric exit code nor a signal number.
C5_Signalled ==
    \A p \in Procs :
        /\ ( /\ IsUnix(platform) /\ timeout[p] = None
             /\ Done(p) /\ seen[p].exited /\ child[p] = "reaped"
             /\ seen[p].intr = None
             /\ signal(exit[p]) # None )
              => result[p] = Signalled(signal(exit[p])[1])
        /\ result[p] = Other =>
              /\ StatusObtained(p)
              /\ code(exit[p]) = None
              /\ IsUnix(platform) => signal(exit[p]) = None

\* C5's case: a child without timeout was killed by a signal and polled.
C5_Witness ==
    \E p \in Procs :
        /\ IsUnix(platform) /\ timeout[p] = None
        /\ StatusObtained(p)
        /\ exit[p] = KilledBySignal(9)
        /\ result[p] = Signalled(9)

\* C6 as stated: when run returns for a Process that spawned a child, this
\* Process has reaped the child exactly once.  (A child collected outside
\* the Process, which makes its wait fail, is left aside.)
C6_ReapedOnce ==
    \A p \in Procs :
        (Done(p) /\ Spawned(p) /\ child[p] # "gone") => reaps[p] = 1

\* C7 as stated: once poll has detected a timeout or an interrupt and
\* terminate waits for the child, terminate and run eventually return, with
\* the child no longer running and its resource released, whatever the child
\* does with the termination request.
C7_TerminationCompletes ==
    \A p \in Procs : (pc[p] = "wait") ~> (Done(p) /\ Collected(p))

\* C8: a signal send that reports 'no such process' ends as a successful one
\* does: terminate returns success with no error, the child ends not running
\* and its resource released, and poll returns what the branch it took
\* returns after a successful termination.
C8_AlreadyExited ==
    \A p \in Procs :
        (Len(sent[p]) = 1 /\ sent[p][1] \in {"OK", "ESRCH"}) =>
            /\ termret[p] # "Err"
            /\ pc[p] \in {"wait", "done"}
            /\ Done(p) =>
                  /\ termret[p] = "Ok"
                  /\ waits[p] = 1
                  /\ Collected(p)
                  /\ result[p] = IF branch[p] = "timeout"
                                 THEN Timeout
                                 ELSE Err(seen[p].intr[1])

\* C8's case: the child had exited when terminate sent its signal, the send
\* reported 'no such process', and terminate returned success.
C8_Witness ==
    \E p \in Procs :
        /\ Done(p)
        /\ seen[p].exited
        /\ sent[p] = <<"ESRCH">>
        /\ termret[p] = "Ok"
        /\ Collected(p)

\* C9 as stated: when the signal send fails for a reason other than 'already
\* gone', poll returns that error and terminate has still waited for the
\* child.
C9_WaitStillPerformed ==
    \A p \in Procs :
        termret[p] = "Err" => (result[p] = TerminateError(p) /\ waits[p] = 1)

\* C10: once the interrupt flag is set, every poll of every Process begins
\* termination of its own child, and none returns 'not yet finished' or a
\* status derived from a natural exit.
C10_InterruptGlobal ==
    [][\A p \in Procs :
          (interrupt # None /\ pc[p] = "poll" /\ pc'[p] # "poll") =>
              /\ Len(sent'[p]) = Len(sent[p]) + 1
              /\ branch'[p] \in {"timeout", "interrupt"}
              /\ pc'[p] \in {"wait", "done"}
              /\ result'[p].kind \notin NaturalKinds]_vars

\* C10's case: with the flag set, both Processes polled and each sent the
\* termination signal to its own child.
C10_Witness ==
    \A p \in Procs :
        /\ seen[p].intr # None
        /\ branch[p] = "interrupt"
        /\ Len(sent[p]) = 1

StatusKinds == NaturalKinds \cup {"Timeout"}

\* C11 as stated: once a poll has returned a terminal ProcessStatus, every
\* later poll of that Process returns the same status.
C11_AsStated ==
    \A p \in Procs :
        (Done(p) /\ again[p] # <<>> /\ again[p][Len(again[p])].kind \in StatusKinds)
            => result[p] = again[p][Len(again[p])]

\* C11, amended: poll returns nothing while the child runs, the timeout has
\* not elapsed and no interrupt is requested; and once a poll has returned a
\* terminal ProcessStatus, a later poll returns that same status when the
\* timeout has not elapsed and no interrupt is requested at that later poll.
\* A later poll made after the timeout has elapsed sends the termination
\* request again and returns Timeout, and otherwise one made while an
\* interrupt is requested returns the interruption; either returns the
\* signal send's error instead when that send fails.
C11_Repoll ==
    \A p \in Procs :
        /\ pc[p] = "sleep" => (~seen[p].timedout /\ seen[p].intr = None /\ ~seen[p].exited)
        /\ (Done(p) /\ again[p] # <<>> /\ again[p][Len(again[p])].kind \in StatusKinds)
              => result[p] =
                    IF seen[p].timedout
                    THEN IF SendTolerated(p) THEN Timeout ELSE TerminateError(p)
                    ELSE IF seen[p].intr # None
                         THEN IF SendTolerated(p)
                              THEN Err(seen[p].intr[1])
                              ELSE TerminateError(p)
                         ELSE again[p][Len(again[p])]

\* C11's case: a poll returned Success, and a later poll, made with no timeout
\* elapsed and no interrupt requested, returned Success again.
C11_Witness ==
    \E p \in Procs :
        /\ Done(p)
        /\ again[p] = <<Success>>
        /\ ~seen[p].timedout /\ seen[p].intr = None
        /\ result[p] = Success

\* start's spawn attempt failed: no Process exists and run has returned.
SpawnFailed(p) == Done(p) /\ spawns[p] = 1 /\ child[p] = "none"

\* C12: start logs the quoted command line before it tries to spawn, and
\* tries to spawn at most once; when the spawn fails run returns the spawn
\* error carrying the command line, no Process exists, nothing was polled,
\* ticked, slept or terminated, and the log holds the command line only.
C12_SpawnFailure ==
    \A p \in Procs :
        /\ spawns[p] <= 1
        /\ spawns[p] = 1 =>
              /\ log_file[p] # <<>>
              /\ log_file[p][1] = CommandLine(cheap_shell_quote(argv[p]))
        /\ SpawnFailed(p) =>
              /\ result[p] = SpawnError(Join(argv[p], <<" ">>))
              /\ log_file[p] = <<CommandLine(cheap_shell_quote(argv[p]))>>
              /\ branch[p] = "none" /\ seen[p] = NoObservation
              /\ steps[p] = <<>>
              /\ sent[p] = <<>> /\ requests[p] = <<>>
              /\ waits[p] = 0 /\ reaps[p] = 0

\* C12's case: the spawn of a two-argument command, one of whose arguments
\* needs quoting, failed.
C12_Witness ==
    \E p \in Procs :
        /\ SpawnFailed(p)
        /\ Len(argv[p]) = 2
        /\ result[p].cmd # log_file[p][1].line

\* The bytes of one character in UTF-8, shortest form.
Encode(c) ==
    IF c < 128 THEN <<c>>
    ELSE IF c < 2048 THEN <<192 + (c \div 64), 128 + (c % 64)>>
    ELSE IF c < 65536
         THEN <<224 + (c \div 4096), 128 + ((c \div 64) % 64), 128 + (c % 64)>>
         ELSE <<240 + (c \div 262144), 128 + ((c \div 4096) % 64),
                128 + ((c \div 64) % 64), 128 + (c % 64)>>

RECURSIVE EncodeText(_)
EncodeText(text) ==
    IF text = <<>> THEN <<>> ELSE Encode(Head(text)) \o EncodeText(Tail(text))

\* A Unicode scalar value: a code point that is not a surrogate.
IsScalarValue(c) == c \in 0..1114111 /\ c \notin 55296..57343

\* The bytes are the UTF-8 encoding of some text: they split into pieces
\* each of which is the encoding of a scalar value.
RECURSIVE ValidText(_)
ValidText(bs) ==
    \/ bs = <<>>
    \/ \E w \in 1..4 :
          /\ w <= Len(bs)
          /\ IsScalarValue(Scalar(bs, w))
          /\ Encode(Scalar(bs, w)) = SubSeq(bs, 1, w)
          /\ ValidText(SubSeq(bs, w + 1, Len(bs)))

\* C13: get_command_output returns the captured standard output, as it was
\* emitted, exactly when the spawn succeeded, the exit status is zero and
\* the output is valid UTF-8; it fails with the spawn error when the spawn
\* fails, with an error holding the exit status and argv when the status is
\* not zero, and with the decode error when the status is zero and the
\* output is not valid text.
C13_CommandOutput ==
    output # NotCalled =>
        /\ output.kind = "Ok" <=>
              (command.spawn /\ command.status = ExitedWithCode(0)
                 /\ ValidText(command.stdout))
        /\ output.kind = "Ok" => EncodeText(output.text) = command.stdout
        /\ ~command.spawn => output = OutErr("failed to spawn", NoStatus, command.argv)
        /\ (command.spawn /\ command.status # ExitedWithCode(0)) =>
              output = OutErr("Child failed with status", command.status, command.argv)
        /\ (command.spawn /\ command.status = ExitedWithCode(0)
              /\ ~ValidText(command.stdout)) =>
              output = OutErr("Child output is not UTF-8", NoStatus, <<>>)

\* C13's case: the command wrote a newline and a three-byte character and
\* exited zero, and the call returned that text.
C13_Witness ==
    /\ output.kind = "Ok"
    /\ command.stdout = <<224, 160, 128, 10>>
    /\ output.text = <<2048, 10>>

\* Reading a quoted command line back: a backslash makes the next character
\* literal, a space that is not escaped ends an argument.
RECURSIVE Unescape(_, _, _)
Unescape(line, arg, args) ==
    IF line = <<>> THEN Append(args, arg)
    ELSE IF Head(line) = "\\" /\ Len(line) >= 2
         THEN Unescape(SubSeq(line, 3, Len(line)), Append(arg, line[2]), args)
    ELSE IF Head(line) = " "
         THEN Unescape(Tail(line), <<>>, Append(args, arg))
    ELSE Unescape(Tail(line), Append(arg, Head(line)), args)

\* The number of characters of the argument that call for a backslash.
Specials(arg) == Cardinality({i \in 1..Len(arg) : arg[i] \in Special})

\* The length of the quoted line: every character, one backslash for each
\* special one, one space between two arguments.
RECURSIVE QuotedLen(_)
QuotedLen(args) ==
    IF args = <<>> THEN 0
    ELSE Len(Head(args)) + Specials(Head(args))
           + (IF Len(args) > 1 THEN 1 ELSE 0) + QuotedLen(Tail(args))

\* The command line start logged for p.
Quoted(p) == log_file[p][1].line

\* C14: in the command line cheap_shell_quote gives, each space, tab,
\* newline, carriage return, backslash and quote of an argument is preceded
\* by exactly one backslash, every other character is copied in order, and
\* the arguments are joined by one space: reading the line back gives argv
\* and the line has no character more than that.  An argument with no
\* special character is unchanged, 'foo bar' becomes 'foo\ bar', and each
\* backslash is escaped on its own.
C14_Quoting ==
    /\ \A p \in Procs :
          log_file[p] # <<>> =>
              /\ Unescape(Quoted(p), <<>>, <<>>) = argv[p]
              /\ Len(Quoted(p)) = QuotedLen(argv[p])
              /\ (Len(argv[p]) = 1 /\ Specials(argv[p][1]) = 0)
                    => Quoted(p) = argv[p][1]
    /\ cheap_shell_quote(<< <<"f", "o", "o">> >>) = <<"f", "o", "o">>
    /\ cheap_shell_quote(<< <<"f", "o", "o", " ", "b", "a", "r">> >>)
          = <<"f", "o", "o", "\\", " ", "b", "a", "r">>
    /\ cheap_shell_quote(<< <<"\\", "\\">>, <<"\"", "\t">> >>)
          = <<"\\", "\\", "\\", "\\", " ", "\\", "\"", "\\", "\t">>

\* C14's case: start logged the command line of an argument made of a
\* backslash and a space.
C14_Witness ==
    \E p \in Procs :
        /\ argv[p] = << <<"\\", " ">> >>
        /\ log_file[p] # <<>>
        /\ Quoted(p) = <<"\\", "\\", "\\", " ">>

\* This step is a call of poll by p.
PollStep(p) == pc[p] = "poll" /\ pc'[p] # "poll"

\* C15: the only operation that blocks on the child is terminate's wait.
\* A poll is always able to run, the sleep of run's loop always ends, and a
\* poll made while the timeout has not elapsed and no interrupt is
\* requested does not wait for the child: it leaves the child as it is and
\* returns None at once when the child is still running.  The wait is
\* reached only from the timeout and interrupt branches, and it does not
\* return while the child runs.
C15_OnlyWaitBlocks ==
    /\ [](\A p \in Procs :
            /\ pc[p] = "poll" => ENABLED Poll(p)
            /\ pc[p] = "sleep" => ENABLED TickSleep(p)
            /\ (pc[p] = "wait" /\ Alive(p)) => ~ENABLED Wait(p)
            /\ (pc[p] = "wait" \/ waits[p] > 0) => branch[p] \in {"timeout", "interrupt"})
    /\ [][\A p \in Procs :
            (PollStep(p) /\ ~TimedOut(p) /\ check_interrupted = None) =>
                /\ pc'[p] # "wait"
                /\ waits'[p] = waits[p]
                /\ Alive(p) => (pc'[p] = "sleep" /\ child'[p] = child[p]
                                  /\ result'[p] = result[p])]_vars

\* C15's case: a poll made with no timeout elapsed and no interrupt
\* requested found the child running and returned None without waiting.
C15_Witness ==
    \E p \in Procs :
        /\ pc[p] = "sleep"
        /\ branch[p] = "exit"
        /\ Alive(p)
        /\ waits[p] = 0

\* C16: terminate is called only when a timeout or an interrupt is detected.
\* When poll returns None or a status derived from the child's own exit,
\* the Process has sent no termination request; a Process with timeout None
\* never yields Timeout and sends a request only when an interrupt is
\* requested; and a poll takes the timeout branch only when the elapsed
\* time is strictly greater than the timeout.
C16_TerminatorInvocation ==
    /\ [](\A p \in Procs :
            /\ (pc[p] = "sleep" \/ result[p].kind \in NaturalKinds) =>
                  (sent[p] = <<>> /\ requests[p] = <<>>)
            /\ sent[p] # <<>> => branch[p] \in {"timeout", "interrupt"}
            /\ timeout[p] = None =>
                  /\ result[p] # Timeout
                  /\ sent[p] # <<>> => (branch[p] = "interrupt" /\ interrupt # None))
    /\ [][\A p \in Procs :
            PollStep(p) =>
                /\ branch'[p] = "timeout" <=>
                      (timeout[p] # None /\ now - start[p] > timeout[p][1])
                /\ Len(sent'[p]) > Len(sent[p]) =>
                      \/ timeout[p] # None /\ now - start[p] > timeout[p][1]
                      \/ interrupt # None]_vars

\* C16's case: a poll made when the elapsed time equals the timeout found
\* the child exited and returned Success; no request was sent.
C16_Witness ==
    \E p \in Procs :
        /\ timeout[p] = Some(0)
        /\ now = start[p]
        /\ result[p] = Success
        /\ sent[p] = <<>>

\* terminate's wait was made for p and failed: it reaped nothing.
WaitFailed(p) == Done(p) /\ waits[p] = 1 /\ reaps[p] = 0

\* C17: when the signal send succeeded or was tolerated and the blocking
\* wait then fails, the failure does not abort the termination: terminate
\* returns Ok and poll returns Timeout, or the interruption, as it does
\* when the wait succeeds.
C17_WaitFailureIgnored ==
    \A p \in Procs :
        WaitFailed(p) =>
            /\ SendTolerated(p)
            /\ termret[p] = "Ok"
            /\ result[p] = IF branch[p] = "timeout" THEN Timeout ELSE Err(seen[p].intr[1])
            /\ branch[p] = "timeout" => log_file[p][Len(log_file[p])] = ResultMessage(Timeout)

\* C17's case: the timeout branch sent its signal, the child was collected
\* by something else, the wait failed, and run returned Timeout.
C17_Witness ==
    \E p \in Procs :
        /\ WaitFailed(p)
        /\ child[p] = "gone"
        /\ sent[p] = <<"OK">>
        /\ result[p] = Timeout

\* What killpg may report, and one errno more that it does not report for
\* SIGTERM.
Errnos == {"OK", "ESRCH", "EPERM", "EINVAL"}

\* The results of the signal send that the claim counts as success.
CountsAsSent(plat, errno) ==
    errno \in {"OK", "ESRCH"} \/ (errno = "EPERM" /\ plat = "macos")

Delivered == {p \in Procs : \E i \in 1..Len(sent[p]) : sent[p][i] = "OK"}

\* C19: on POSIX the child is spawned as the leader of a new process group
\* whose id is the child's pid; every termination signal is sent to that
\* group and not to the lone pid; the child and every descendant still in
\* the group receive it; and no process outside the group, in particular
\* no child of another Process, is signalled.
C19_ProcessGroup ==
    IsUnix(platform) =>
        /\ \A p \in Procs :
              /\ Spawned(p) => pgrp[p] = Pid(p)
              /\ \A i \in 1..Len(requests[p]) :
                    requests[p][i] = [how |-> "killpg", signal |-> SIGTERM, target |-> pgrp[p]]
              /\ p \in Delivered =>
                    {x \in OsProcesses : x.of = p /\ x.role \in {"child", "descendant"}}
                        \subseteq signalled
        /\ \A x \in signalled :
              /\ x.of \in Delivered
              /\ x.role # "escaped"
              /\ GroupOf(x) = Pid(x.of)

\* C19's case: two children run, each in its own group; the signal of
\* Process 1 was delivered and reached its child and its descendant, while
\* Process 2 has sent nothing and none of its processes is signalled.
C19_Witness ==
    /\ Delivered = {1}
    /\ Spawned(2) /\ sent[2] = <<>>
    /\ pgrp = [p \in Procs |-> Pid(p)]
    /\ signalled = {[role |-> "child", of |-> 1], [role |-> "descendant", of |-> 1]}

\* The number of "result:" messages in p's log.
ResultMessages(p) ==
    Cardinality({i \in 1..Len(log_file[p]) : log_file[p][i].what = "result"})

\* What run does for p: where it is, what it sent and waited for, what it
\* returned and logged.
RunState(p) ==
    <<pc[p], branch[p], seen[p], steps[p], sent[p], requests[p], waits[p],
      reaps[p], termret[p], result[p], log_file[p]>>

\* C20: in run's loop every poll that returns None is followed by one tick
\* and one sleep and then by another poll; the first terminal status or
\* error ends the loop, after which run polls, ticks and terminates no
\* more; and the "result:" message is logged once, when run returns a
\* ProcessStatus, and not at all when it returns an error.
C20_RunLoop ==
    /\ [](\A p \in Procs :
            /\ pc[p] = "sleep" => (steps[p] = <<>> /\ result[p] = Pending)
            /\ (pc[p] = "poll" /\ branch[p] # "none") =>
                  (steps[p] = <<"tick", "sleep">> /\ result[p] = Pending)
            /\ pc[p] = "sleep" => ENABLED TickSleep(p)
            /\ pc[p] = "poll" => ENABLED Poll(p)
            /\ result[p] # Pending <=> Done(p)
            /\ IF result[p].kind \in StatusKinds
               THEN /\ ResultMessages(p) = 1
                    /\ log_file[p][Len(log_file[p])] = ResultMessage(result[p])
               ELSE ResultMessages(p) = 0)
    /\ [][\A p \in Procs :
            /\ Done(p) => RunState(p)' = RunState(p)
            /\ pc[p] = "sleep" => pc'[p] \in {"sleep", "poll"}]_vars

\* C20's case: a poll returned None, run ticked and slept once, and is about
\* to poll again a child that has exited meanwhile.
C20_Witness ==
    \E p \in Procs :
        /\ pc[p] = "poll"
        /\ branch[p] = "exit"
        /\ steps[p] = <<"tick", "sleep">>
        /\ child[p] = "zombie"

====
